---- MODULE Spec2Model ----
(***************************************************************************)
(* The local-socket server of src/server/server.c: start_server (Start),   *)
(* init_server (Run) and handle_client (the Session Handler), together     *)
(* with the part of the operating system the three functions call into    *)
(* (socket, bind, listen, accept, recv, send, close, SIGPIPE) and the      *)
(* clients that connect to the endpoint.                                   *)
(*                                                                         *)
(* Process "p1" is the server whose Run loop is followed; "p2" is a second *)
(* instance of the same program, which only runs start_server.             *)
(* init_server is entered by a caller that is not part of server.c, with   *)
(* the global server_socket already a listening endpoint: that is the      *)
(* initial state of the Run part of the model.                             *)
(***************************************************************************)
EXTENDS Integers, Sequences, FiniteSets

VARIABLES
    startPc,         \* per process: "entry" | "returned" | "running" (inside init_server)
    startRet,        \* per process: <<>> or <<return value of start_server>>
    startLog,        \* per process: the lines start_server printed
    bindLen,         \* per process: <<>> or <<address length handed to bind>>
    startEnv,        \* per process: <<>> or <<what start_server met: the holder of
                     \*   the path and the operating system's answers>>
    startCalls,      \* per process: the system calls start_server made, in order,
                     \*   each with whether it succeeded
    server_socket,   \* per process: "none" | "created" | "bound" | "listening"
    pathOwner,       \* who holds /tmp/arq_socket: "free" | "stale" | "p1" | "p2"
    sigpipe,         \* disposition of SIGPIPE inherited by p1: "default" | "ignore"
    pc,              \* p1 in Run: "off" | "accept" | "recv" | "send" | "close" | "killed"
    client_socket,   \* the local of init_server: the accepted client, -1 when none
    buffer,          \* the 256 bytes of stack that handle_client uses as buffer
    bytes_received,  \* the local of handle_client
    log,             \* the lines printed in the current iteration of the loop
    faults,          \* errors the operating system has injected so far
    consecFails,     \* accept failures in a row since the last close
    backlog,         \* connections established and waiting to be accepted
    cst,             \* per client, its end: "idle" | "open" | "shutwr" | "closed", and
                     \*   "over" once the server has closed the connection
    cmsg,            \* per client, the message it sent (len 0: nothing sent)
    consumed,        \* per client, how many of its bytes the server has read
    conn,            \* per client, the server's end: "none" | "open" | "closed"
    closedBy,        \* per client: "none" | "run" | "exit"
    closes,          \* per client, the number of close calls Run made on it
    recvRets,        \* per client, the results of the recv calls made on it
    sendRets,        \* per client, the results of the send calls made on it
    sendReqs,        \* per client, the lengths those send calls asked for
    wire,            \* per client, the bytes the server wrote to it
    printed,         \* per client, <<>> or <<the text printed after "Cliente: ">>
    handlerEnd,      \* per client: "none" | "recv_error" | "send_error" | "success"
    ioAfterClose,    \* a recv or send was made on a connection already closed
    oob              \* the terminator was written outside the buffer

vars == <<startPc, startRet, startLog, bindLen, startEnv, startCalls, server_socket, pathOwner, sigpipe,
          pc, client_socket, buffer, bytes_received, log, faults, consecFails,
          backlog, cst, cmsg, consumed, conn, closedBy, closes, recvRets,
          sendRets, sendReqs, wire, printed, handlerEnd, ioAfterClose, oob>>

startVars == <<startPc, startRet, startLog, bindLen, startEnv, startCalls>>
runVars == <<pc, client_socket, buffer, bytes_received, log, consecFails>>
clientVars == <<cst, cmsg>>
connVars == <<conn, closedBy, closes, recvRets, sendRets, sendReqs,
              wire, printed, handlerEnd, ioAfterClose, oob, consumed>>

----------------------------------------------------------------------------
(* Bounds of the model *)

MaxClients == 2      \* clients that connect during a run
MaxFaults == 2       \* errors the operating system injects during a run
Over == 1            \* how far the longest client message exceeds the buffer
ShortSend == 4       \* the byte count of a send that transfers only a part

(* Program constants *)

BufSize == 256            \* char buffer[256]
Backlog == 5              \* listen(server_socket, 5)
SizeofSockaddrUn == 110   \* sizeof(struct sockaddr_un)
SunFamilyEnd == 2         \* offset of the end of sun_family in sockaddr_un

Procs == {"p1", "p2"}
Clients == 1..MaxClients

Min(a, b) == IF a < b THEN a ELSE b

\* the lengths and contents a client may send in its one send call
Lens == {1, BufSize - 1, BufSize + Over}
\* client c sends the bytes c, 2c, 3c, ... (modulo 256): client 2's message
\* holds a NUL at index 127
Msgs(c) == [len : Lens, seed : {c}]
NoMsg == [len |-> 0, seed |-> 1]

\* byte i (from 0) of message m
MsgByte(m, i) == (m.seed * (i + 1)) % 256

\* the first n bytes of m, as a sequence
MsgPrefix(m, n) == [k \in 1..n |-> MsgByte(m, k - 1)]

----------------------------------------------------------------------------
(* C strings *)

\* "ACK Server" as it lies in memory: the ten characters and the terminator
ResponseMem == <<65, 67, 75, 32, 83, 101, 114, 118, 101, 114, 0>>

\* strlen: the number of bytes before the first NUL
Strlen(mem) == (CHOOSE k \in 1..Len(mem) :
                    mem[k] = 0 /\ \A j \in 1..(k - 1) : mem[j] # 0) - 1

\* const char* response = "ACK Server"
response == ResponseMem

\* what printf("%s") prints of a buffer: the bytes before the first NUL
\* (the whole buffer when it holds none)
CStr(buf) ==
    LET nuls == {i \in DOMAIN buf : buf[i] = 0}
        n == IF nuls = {} THEN BufSize
             ELSE CHOOSE i \in nuls : \A j \in nuls : i <= j
    IN [k \in 1..n |-> buf[k - 1]]

----------------------------------------------------------------------------
(* The operating system, as far as start_server sees it *)

\* bind(2) on an AF_UNIX socket: an address shorter than its family field is
\* invalid; a path that exists (bound by a live process, or left behind) is in
\* use; otherwise the path may still be inaccessible
KBind(addrlen, owner, access) ==
    IF addrlen < SunFamilyEnd THEN -1
    ELSE IF owner # "free" THEN -1
    ELSE IF ~access THEN -1
    ELSE 0

\* listen(2): an unbound AF_UNIX socket cannot listen
KListen(sock, listenOk) ==
    IF sock # "bound" THEN -1
    ELSE IF ~listenOk THEN -1
    ELSE 0

----------------------------------------------------------------------------
(* start_server *)

\* the third argument of the bind call: sizeof(server_address) < 0, a
\* comparison, which is 0 because no size is negative
BindAddrLen == IF SizeofSockaddrUn < 0 THEN 1 ELSE 0

\* a system call of start_server and whether it succeeded
Call(name, ok) == [call |-> name, ok |-> ok]

\* start_server with the path removed before a bind of the whole structure
StartOutcomeUnlink(p, owner, sockOk, access, listenOk) ==
    IF ~sockOk
    THEN [ret |-> -1, sock |-> "none", owner |-> owner, blen |-> <<>>,
          calls |-> <<Call("socket", FALSE)>>,
          log |-> <<"Erro na criacao do server_socket.">>]
    ELSE IF KBind(SizeofSockaddrUn, "free", access) # 0
    THEN [ret |-> -1, sock |-> "created", owner |-> "free",
          blen |-> <<SizeofSockaddrUn>>,
          calls |-> <<Call("socket", TRUE), Call("bind", FALSE)>>,
          log |-> <<"Erro ao vincular o server_socket">>]
    ELSE IF KListen("bound", listenOk) < 0
    THEN [ret |-> -1, sock |-> "bound", owner |-> p,
          blen |-> <<SizeofSockaddrUn>>,
          calls |-> <<Call("socket", TRUE), Call("bind", TRUE),
                      Call("listen", FALSE)>>,
          log |-> <<"Erro ao colocar o server_socket em listen">>]
    ELSE [ret |-> 0, sock |-> "listening", owner |-> p,
          blen |-> <<SizeofSockaddrUn>>,
          calls |-> <<Call("socket", TRUE), Call("bind", TRUE),
                      Call("listen", TRUE)>>,
          log |-> <<"Servidor iniciado e escutando...">>]

\* start_server with the result of bind not looked at: listen is called on
\* whatever bind left
StartOutcomeBindUnchecked(p, owner, sockOk, access, listenOk) ==
    IF ~sockOk
    THEN [ret |-> -1, sock |-> "none", owner |-> owner, blen |-> <<>>,
          calls |-> <<Call("socket", FALSE)>>,
          log |-> <<"Erro na criacao do server_socket.">>]
    ELSE LET b == KBind(BindAddrLen, owner, access)
             sock == IF b = 0 THEN "bound" ELSE "created"
             l == KListen(sock, listenOk)
         IN [ret |-> IF l < 0 THEN -1 ELSE 0,
             sock |-> IF l < 0 THEN sock ELSE "listening",
             owner |-> IF b = 0 THEN p ELSE owner,
             blen |-> <<BindAddrLen>>,
             calls |-> <<Call("socket", TRUE), Call("bind", b = 0),
                         Call("listen", l = 0)>>,
             log |-> IF l < 0
                     THEN <<"Erro ao colocar o server_socket em listen">>
                     ELSE <<"Servidor iniciado e escutando...">>]

\* what one call of start_server by process p does, given the holder of the
\* path and what the operating system answers: the return value, the state
\* server_socket is left in, the holder of the path, the length handed to
\* bind, the system calls made and the lines printed
StartOutcome(p, owner, sockOk, access, listenOk) ==
    IF ~sockOk     \* server_socket < 0
    THEN [ret |-> -1, sock |-> "none", owner |-> owner, blen |-> <<>>,
          calls |-> <<Call("socket", FALSE)>>,
          log |-> <<"Erro na criacao do server_socket.">>]
    ELSE IF KBind(BindAddrLen, owner, access) # 0     \* if (bind(...))
    THEN [ret |-> -1, sock |-> "created", owner |-> owner,
          blen |-> <<BindAddrLen>>,
          calls |-> <<Call("socket", TRUE), Call("bind", FALSE)>>,
          log |-> <<"Erro ao vincular o server_socket">>]
    ELSE IF KListen("bound", listenOk) < 0
    THEN [ret |-> -1, sock |-> "bound", owner |-> p,
          blen |-> <<BindAddrLen>>,
          calls |-> <<Call("socket", TRUE), Call("bind", TRUE),
                      Call("listen", FALSE)>>,
          log |-> <<"Erro ao colocar o server_socket em listen">>]
    ELSE [ret |-> 0, sock |-> "listening", owner |-> p,
          blen |-> <<BindAddrLen>>,
          calls |-> <<Call("socket", TRUE), Call("bind", TRUE),
                      Call("listen", TRUE)>>,
          log |-> <<"Servidor iniciado e escutando...">>]

start_server(p) ==
    /\ startPc[p] = "entry"
    /\ \E sockOk \in BOOLEAN, access \in BOOLEAN, listenOk \in BOOLEAN :
         LET o == StartOutcome(p, pathOwner, sockOk, access, listenOk) IN
           /\ startPc' = [startPc EXCEPT ![p] = "returned"]
           /\ startRet' = [startRet EXCEPT ![p] = <<o.ret>>]
           /\ startLog' = [startLog EXCEPT ![p] = o.log]
           /\ bindLen' = [bindLen EXCEPT ![p] = o.blen]
           /\ startCalls' = [startCalls EXCEPT ![p] = o.calls]
           /\ startEnv' = [startEnv EXCEPT ![p] =
                  <<[owner |-> pathOwner, sockOk |-> sockOk,
                     access |-> access, listenOk |-> listenOk]>>]
           /\ server_socket' = [server_socket EXCEPT ![p] = o.sock]
           /\ pathOwner' = o.owner
    /\ UNCHANGED <<sigpipe, faults, backlog>>
    /\ UNCHANGED runVars
    /\ UNCHANGED clientVars
    /\ UNCHANGED connVars

----------------------------------------------------------------------------
(* The operating system, as far as init_server and handle_client see it *)

\* the bytes of client c that wait unread at the server's end
Avail(c) == cmsg[c].len - consumed[c]

\* recv(2) of at most len bytes from client c: the possible results. It
\* returns what has arrived, up to len; 0 once the peer has shut down its
\* sending side; and it blocks (no result) otherwise. An error is a fault.
KRecvResults(c, len) ==
    (IF faults < MaxFaults THEN {-1} ELSE {})
    \cup (IF Avail(c) > 0 THEN {Min(Avail(c), len)}
          ELSE IF cst[c] \in {"shutwr", "closed"} THEN {0}
          ELSE {})

\* recv(2) with MSG_DONTWAIT among its flags fails at once (EAGAIN, which is
\* no fault) where it would block; with no such flag it has no result of
\* its own
KRecvNoWait(c, flags) ==
    IF flags = "MSG_DONTWAIT" /\ Avail(c) = 0 /\ cst[c] = "open"
    THEN {-1} ELSE {}

\* send(2) of len bytes to client c whose end is still open: all of them,
\* a part of them, or an error (a fault)
KSendResults(len) ==
    (IF faults < MaxFaults THEN {-1} ELSE {})
    \cup {Min(ShortSend, len), len}

\* the first n bytes of the memory at mem
MemPrefix(mem, n) == [k \in 1..Min(n, Len(mem)) |-> mem[k]]

----------------------------------------------------------------------------
(* Clients *)

\* connect(2): the connection is established and queued for accept
ClientConnect(c) ==
    /\ cst[c] = "idle"
    /\ \A d \in Clients : d < c => cst[d] # "idle"
    /\ server_socket["p1"] = "listening"
    /\ pc # "killed"
    /\ Len(backlog) <= Backlog
    /\ cst' = [cst EXCEPT ![c] = "open"]
    /\ backlog' = Append(backlog, c)
    /\ UNCHANGED <<cmsg, sigpipe, faults, server_socket, pathOwner>>
    /\ UNCHANGED startVars
    /\ UNCHANGED runVars
    /\ UNCHANGED connVars

\* the client's one send call, of a whole message
ClientSend(c) ==
    /\ cst[c] = "open"
    /\ cmsg[c] = NoMsg
    /\ conn[c] # "closed"
    /\ \E m \in Msgs(c) : cmsg' = [cmsg EXCEPT ![c] = m]
    /\ UNCHANGED <<cst, sigpipe, faults, backlog, server_socket, pathOwner>>
    /\ UNCHANGED startVars
    /\ UNCHANGED runVars
    /\ UNCHANGED connVars

\* shutdown(SHUT_WR) by a client that sends nothing: it still reads. (After a
\* message the server cannot tell a shut-down sending side from an open one.)
ClientShutdown(c) ==
    /\ cst[c] = "open"
    /\ cmsg[c] = NoMsg
    /\ conn[c] # "closed"
    /\ cst' = [cst EXCEPT ![c] = "shutwr"]
    /\ UNCHANGED <<cmsg, sigpipe, faults, backlog, server_socket, pathOwner>>
    /\ UNCHANGED startVars
    /\ UNCHANGED runVars
    /\ UNCHANGED connVars

\* close(2) by the client: it disconnects. (Once the server has closed its end
\* nothing the client does reaches the server.)
ClientClose(c) ==
    /\ cst[c] \in {"open", "shutwr"}
    /\ conn[c] # "closed"
    /\ cst' = [cst EXCEPT ![c] = "closed"]
    /\ UNCHANGED <<cmsg, sigpipe, faults, backlog, server_socket, pathOwner>>
    /\ UNCHANGED startVars
    /\ UNCHANGED runVars
    /\ UNCHANGED connVars

----------------------------------------------------------------------------
(* init_server and handle_client *)

\* accept(2) on the listening endpoint: the oldest established connection
\* when there is one (it blocks otherwise), or an error (a fault). Only a
\* listening socket yields connections
KAcceptResults ==
    (IF faults < MaxFaults THEN {-1} ELSE {})
    \cup (IF backlog # <<>> /\ server_socket["p1"] = "listening"
          THEN {Head(backlog)} ELSE {})

\* after a failed accept, the loop left
AcceptErrorLeaves == "off"

\* where init_server goes after a failed accept: continue, to the next accept
AcceptErrorNext == "accept"

\* init_server, from the top of the loop to the call of handle_client
init_server_accept ==
    /\ pc = "accept"
    /\ \E r \in KAcceptResults :
         /\ client_socket' = r
         /\ IF r < 0
            THEN /\ log' = <<"Aguardando conexao do cliente...",
                             "Erro ao aceitar a conexao">>
                 /\ pc' = AcceptErrorNext
                 /\ faults' = faults + 1
                 /\ consecFails' = consecFails + 1
                 /\ UNCHANGED <<backlog, conn>>
            ELSE /\ log' = <<"Aguardando conexao do cliente...",
                             "Cliente conectado">>
                 /\ pc' = "recv"       \* handle_client(client_socket)
                 /\ backlog' = Tail(backlog)
                 /\ conn' = [conn EXCEPT ![r] = "open"]
                 /\ UNCHANGED <<faults, consecFails>>
    /\ UNCHANGED <<buffer, bytes_received, sigpipe, server_socket, pathOwner,
                   closedBy, closes, recvRets, sendRets, sendReqs, wire, printed,
                   handlerEnd, ioAfterClose, oob, consumed>>
    /\ UNCHANGED startVars
    /\ UNCHANGED clientVars

\* the length asked of recv, with the whole buffer given away
RecvLenWhole == BufSize

\* the length asked of recv: sizeof(buffer) - 1
RecvLen == BufSize - 1

\* the terminator written one byte too far, at buffer[bytes_received + 1]
TerminateAfter(buf, n) ==
    IF n + 1 \in DOMAIN buf THEN [buf EXCEPT ![n + 1] = 0] ELSE buf

\* the buffer left as recv filled it, with no terminator
TerminateNot(buf, n) == buf

\* buffer[bytes_received] = '\0'
Terminate(buf, n) == IF n \in DOMAIN buf THEN [buf EXCEPT ![n] = 0] ELSE buf

\* the buffer after recv has copied the next n unread bytes of client c to
\* its start
Received(buf, c, n) ==
    [i \in DOMAIN buf |-> IF i < n THEN MsgByte(cmsg[c], consumed[c] + i)
                          ELSE buf[i]]

\* after a failed recv, handle_client going on to its send
RecvErrorFallsThrough == "send"

\* after a failed recv, the recv tried again
RecvErrorRetry == "recv"

\* where handle_client goes after a failed recv: it returns, to the close in
\* init_server
RecvErrorNext == "close"

\* the flags of recv asking it not to wait
RecvFlagsDontWait == "MSG_DONTWAIT"

\* the flags handed to recv: 0, so that the call waits for data
RecvFlags == "0"

\* handle_client, from its entry to the call of send
handle_client_recv ==
    /\ pc = "recv"
    /\ LET c == client_socket IN
       \E r \in KRecvResults(c, RecvLen) \cup KRecvNoWait(c, RecvFlags) :
         /\ bytes_received' = r
         /\ recvRets' = [recvRets EXCEPT ![c] = Append(@, r)]
         /\ ioAfterClose' = (ioAfterClose \/ conn[c] # "open")
         /\ IF r < 0
            THEN /\ log' = Append(log, "Erro ao receber dados do cliente")
                 /\ handlerEnd' = [handlerEnd EXCEPT ![c] = "recv_error"]
                 /\ pc' = RecvErrorNext
                 /\ faults' = IF r \in KRecvNoWait(c, RecvFlags) THEN faults
                              ELSE faults + 1
                 /\ UNCHANGED <<buffer, printed, consumed, oob>>
            ELSE /\ buffer' = Terminate(Received(buffer, c, r), r)
                 /\ oob' = (oob \/ r \notin DOMAIN buffer)
                 /\ consumed' = [consumed EXCEPT ![c] = @ + r]
                 /\ printed' = [printed EXCEPT ![c] = <<CStr(buffer')>>]
                 /\ log' = Append(log, "Cliente: %s")
                 /\ pc' = "send"
                 /\ UNCHANGED <<handlerEnd, faults>>
    /\ UNCHANGED <<client_socket, consecFails, backlog, sigpipe, server_socket,
                   pathOwner, conn, closedBy, closes, sendRets, sendReqs, wire>>
    /\ UNCHANGED startVars
    /\ UNCHANGED clientVars

\* the length handed to send, with the terminator counted
SendLenSizeof == Len(response)

\* the length handed to send: strlen(response)
SendLen == Strlen(response)

\* after the send, the next accept with no close in between
SendReturnSkipsClose == "accept"

\* where handle_client goes when it returns after the send, failed or not: to
\* the close in init_server
SendReturnNext == "close"

\* the result of send never taken for a failure
SendFailedNever(r) == FALSE

\* if (bytes_sent < 0)
SendFailed(r) == r < 0

\* handle_client, from the call of send to its end. A send to a peer that has
\* closed its end raises SIGPIPE: with the default disposition the process is
\* terminated inside the call, its descriptors are closed and the path is left
\* behind; with SIGPIPE ignored the call fails
handle_client_send ==
    /\ pc = "send"
    /\ LET c == client_socket IN
       /\ ioAfterClose' = (ioAfterClose \/ conn[c] # "open")
       /\ sendReqs' = [sendReqs EXCEPT ![c] = Append(@, SendLen)]
       /\ IF cst[c] = "closed" /\ sigpipe = "default"
          THEN /\ pc' = "killed"
               /\ sendRets' = [sendRets EXCEPT ![c] = Append(@, -1)]
               /\ conn' = [conn EXCEPT ![c] = "closed"]
               /\ closedBy' = [closedBy EXCEPT ![c] = "exit"]
               /\ server_socket' = [server_socket EXCEPT !["p1"] = "none"]
               /\ pathOwner' = "stale"
               /\ backlog' = <<>>
               /\ UNCHANGED <<log, wire, handlerEnd, faults>>
          ELSE /\ \E r \in (IF cst[c] = "closed" THEN {-1}
                            ELSE KSendResults(SendLen)) :
                    /\ sendRets' = [sendRets EXCEPT ![c] = Append(@, r)]
                    /\ IF SendFailed(r)
                       THEN /\ log' = Append(log, "Erro ao enviar dados para o cliente")
                            /\ handlerEnd' = [handlerEnd EXCEPT ![c] = "send_error"]
                            /\ faults' = IF cst[c] = "closed" THEN faults
                                         ELSE faults + 1
                            /\ UNCHANGED wire
                       ELSE /\ log' = Append(log, "Resposta enviada")
                            /\ handlerEnd' = [handlerEnd EXCEPT ![c] = "success"]
                            /\ wire' = [wire EXCEPT ![c] = @ \o MemPrefix(response, r)]
                            /\ UNCHANGED faults
               /\ pc' = SendReturnNext
               /\ UNCHANGED <<conn, closedBy, server_socket, pathOwner, backlog>>
    /\ UNCHANGED <<client_socket, buffer, bytes_received, consecFails, sigpipe,
                   closes, recvRets, printed, oob, consumed>>
    /\ UNCHANGED startVars
    /\ UNCHANGED clientVars

\* init_server closing the connection a second time
init_server_close_twice ==
    /\ pc = "close"
    /\ LET c == client_socket IN
         /\ conn' = [conn EXCEPT ![c] = "closed"]
         /\ closedBy' = [closedBy EXCEPT ![c] = "run"]
         /\ closes' = [closes EXCEPT ![c] = @ + 2]
         /\ cst' = [cst EXCEPT ![c] = "over"]
    /\ log' = Append(log, "Conexao encerrada")
    /\ pc' = "accept"
    /\ consecFails' = 0
    /\ UNCHANGED <<client_socket, buffer, bytes_received, sigpipe, cmsg,
                   faults, backlog, server_socket, pathOwner, recvRets,
                   sendRets, sendReqs, wire, printed, handlerEnd,
                   ioAfterClose, oob, consumed>>
    /\ UNCHANGED startVars

\* init_server with the connection left open
init_server_close_leak ==
    /\ pc = "close"
    /\ log' = Append(log, "Conexao encerrada")
    /\ pc' = "accept"
    /\ consecFails' = 0
    /\ UNCHANGED <<client_socket, buffer, bytes_received, sigpipe,
                   faults, backlog, server_socket, pathOwner>>
    /\ UNCHANGED startVars
    /\ UNCHANGED clientVars
    /\ UNCHANGED connVars

\* init_server, from the return of handle_client to the end of the iteration.
\* (Nothing the client does after the close reaches the server: its end is
\* "over".)
init_server_close ==
    /\ pc = "close"
    /\ LET c == client_socket IN
         /\ conn' = [conn EXCEPT ![c] = "closed"]
         /\ closedBy' = [closedBy EXCEPT ![c] = IF conn[c] = "open" THEN "run" ELSE @]
         /\ closes' = [closes EXCEPT ![c] = @ + 1]
         /\ cst' = [cst EXCEPT ![c] = "over"]
    /\ log' = Append(log, "Conexao encerrada")
    /\ pc' = "accept"
    /\ consecFails' = 0
    /\ UNCHANGED <<client_socket, buffer, bytes_received, sigpipe, cmsg,
                   faults, backlog, server_socket, pathOwner, recvRets, sendRets,
                   sendReqs, wire, printed, handlerEnd, ioAfterClose, oob,
                   consumed>>
    /\ UNCHANGED startVars

----------------------------------------------------------------------------
(* The specifications *)

\* what an uninitialised byte of the stack may hold
Garbage == {0, 165}

\* the state in which nothing has run yet, but for the processes
InitRest ==
    /\ startRet = [p \in Procs |-> <<>>]
    /\ startLog = [p \in Procs |-> <<>>]
    /\ bindLen = [p \in Procs |-> <<>>]
    /\ startEnv = [p \in Procs |-> <<>>]
    /\ startCalls = [p \in Procs |-> <<>>]
    /\ sigpipe \in {"default", "ignore"}
    /\ client_socket = -1
    /\ \E g \in Garbage : buffer = [i \in 0..(BufSize - 1) |-> g]
    /\ bytes_received = 0
    /\ log = <<>>
    /\ faults = 0
    /\ consecFails = 0
    /\ backlog = <<>>
    /\ cst = [c \in Clients |-> "idle"]
    /\ cmsg = [c \in Clients |-> NoMsg]
    /\ consumed = [c \in Clients |-> 0]
    /\ conn = [c \in Clients |-> "none"]
    /\ closedBy = [c \in Clients |-> "none"]
    /\ closes = [c \in Clients |-> 0]
    /\ recvRets = [c \in Clients |-> <<>>]
    /\ sendRets = [c \in Clients |-> <<>>]
    /\ sendReqs = [c \in Clients |-> <<>>]
    /\ wire = [c \in Clients |-> <<>>]
    /\ printed = [c \in Clients |-> <<>>]
    /\ handlerEnd = [c \in Clients |-> "none"]
    /\ ioAfterClose = FALSE
    /\ oob = FALSE

\* p1 enters init_server with its endpoint listening on the path
InitLive ==
    /\ startPc = [p \in Procs |-> IF p = "p1" THEN "running" ELSE "entry"]
    /\ server_socket = [p \in Procs |-> IF p = "p1" THEN "listening" ELSE "none"]
    /\ pathOwner = "p1"
    /\ pc = "accept"

\* no process has started: the path is free, or was left behind by a past run
InitCold ==
    /\ startPc = [p \in Procs |-> "entry"]
    /\ server_socket = [p \in Procs |-> "none"]
    /\ pathOwner \in {"free", "stale"}
    /\ pc = "off"

\* Run: the server p1 in init_server and its clients
Init == InitLive /\ InitRest

Next ==
    \/ init_server_accept
    \/ handle_client_recv
    \/ handle_client_send
    \/ init_server_close
    \/ \E c \in Clients : ClientConnect(c)
    \/ \E c \in Clients : ClientSend(c)
    \/ \E c \in Clients : ClientShutdown(c)
    \/ \E c \in Clients : ClientClose(c)

Spec == Init /\ [][Next]_vars

\* Start: the processes that call start_server, beside a server p1 that is
\* either not started or live in init_server with one client
InitStart == (InitLive \/ InitCold) /\ InitRest

NextStart ==
    \/ \E p \in Procs : start_server(p)
    \/ init_server_accept
    \/ handle_client_recv
    \/ handle_client_send
    \/ init_server_close
    \/ ClientConnect(1)
    \/ ClientSend(1)
    \/ ClientShutdown(1)
    \/ ClientClose(1)

SpecStart == InitStart /\ [][NextStart]_vars

----------------------------------------------------------------------------
(* Properties *)

\* the ten bytes of the text ACK Server
AckServer == <<65, 67, 75, 32, 83, 101, 114, 118, 101, 114>>

\* the first n elements of a sequence
Prefix(seq, n) == [k \in 1..Min(n, Len(seq)) |-> seq[k]]

\* a sequence of bytes read as text: its bytes before the first NUL
Text(seq) ==
    LET nuls == {k \in 1..Len(seq) : seq[k] = 0}
    IN IF nuls = {} THEN seq
       ELSE Prefix(seq, (CHOOSE k \in nuls : \A j \in nuls : k <= j) - 1)

\* connection c saw one recv that did not fail and one send that transferred
\* all it was asked to
Exchanged(c) ==
    /\ Len(recvRets[c]) = 1
    /\ recvRets[c][1] >= 0
    /\ Len(sendRets[c]) = 1
    /\ sendRets[c] = sendReqs[c]

\* connection c has been closed by init_server, or is about to be: the server
\* is at the close of c
ClosedOrClosing(c) ==
    \/ conn[c] = "closed" /\ closedBy[c] = "run" /\ closes[c] = 1
    \/ conn[c] = "open" /\ closes[c] = 0 /\ pc = "close" /\ client_socket = c

\* C1: on a connection whose recv and send both succeed (the client having
\* sent 0 to 255 bytes, or more), the bytes the server wrote are exactly the
\* ten bytes ACK Server, with no terminator, and the server closes the
\* connection next.
C1_AckExactlyThenClose ==
    \A c \in Clients :
        Exchanged(c) => wire[c] = AckServer /\ ClosedOrClosing(c)

\* a client that sent nothing and one that sent 255 bytes, both acknowledged
\* and closed
C1_Witness ==
    \E c, d \in Clients :
        /\ cmsg[c].len = 0 /\ cmsg[d].len = BufSize - 1
        /\ Exchanged(c) /\ Exchanged(d)
        /\ conn[c] = "closed" /\ conn[d] = "closed"

\* C2: a connection whose handler has returned, whichever way (receive error,
\* send error, success), is closed by init_server, once, and init_server is
\* never at its accept with an accepted connection still open.
C2_ClosedAfterHandler ==
    /\ \A c \in Clients : handlerEnd[c] # "none" => ClosedOrClosing(c)
    /\ pc = "accept" => \A c \in Clients : conn[c] # "open"

\* back at the accept after a handler that ended in a receive error and one
\* that ended in a send error
C2_Witness ==
    /\ pc = "accept"
    /\ \E c, d \in Clients :
        /\ handlerEnd[c] = "recv_error" /\ closedBy[c] = "run"
        /\ handlerEnd[d] = "send_error" /\ closedBy[d] = "run"

\* C3: at most one accepted connection is open at any moment, the one the
\* server is handling; a later client (clients are accepted in the order they
\* connected) is accepted only after the earlier one's single recv has
\* returned and its connection is closed.
C3_OneAtATime ==
    /\ Cardinality({c \in Clients : conn[c] = "open"}) <= 1
    /\ \A c \in Clients :
         conn[c] = "open" => client_socket = c /\ pc \in {"recv", "send", "close"}
    /\ \A c, d \in Clients :
         (c < d /\ conn[d] # "none")
             => conn[c] = "closed" /\ Len(recvRets[c]) = 1

\* the second client has connected and sent its message while the first is
\* still being handled
C3_Witness ==
    /\ conn[1] = "open" /\ pc = "send"
    /\ backlog = <<2>> /\ cmsg[2].len > 0

\* C4 (as claimed): a client that connected and disconnected without sending
\* any data, and whose recv returned zero so that the send was attempted,
\* does not terminate the server.
C4_DisconnectDoesNotTerminate ==
    \A c \in Clients :
        (cmsg[c] = NoMsg /\ cst[c] = "closed" /\ recvRets[c] = <<0>>
            /\ sendReqs[c] # <<>> /\ client_socket = c)
        => pc # "killed"

\* C5: a step in which accept fails prints the failure, leaves the server at
\* its accept with the endpoint listening, invokes no handler (no recv, no
\* send) and closes nothing; and a connection accepted after any number of
\* such failures is served like any other.
C5_AcceptFailureContinues ==
    /\ [][(pc = "accept" /\ consecFails' = consecFails + 1) =>
            /\ log' = <<"Aguardando conexao do cliente...",
                        "Erro ao aceitar a conexao">>
            /\ pc' = "accept"
            /\ server_socket' = server_socket
            /\ UNCHANGED <<conn, closes, closedBy, recvRets, sendRets, sendReqs,
                           wire, handlerEnd, backlog>>]_vars
    /\ [](\A c \in Clients :
            (consecFails > 0 /\ client_socket = c /\ Exchanged(c))
                => wire[c] = AckServer /\ ClosedOrClosing(c))

\* a connection accepted after two accept failures in a row and
\* acknowledged: the server is at its close
C5_Witness ==
    \E c \in Clients :
        consecFails >= 2 /\ client_socket = c /\ Exchanged(c)
            /\ wire[c] = AckServer /\ pc = "close"

\* the three error lines of start_server
StartErrors ==
    {<<"Erro na criacao do server_socket.">>,
     <<"Erro ao vincular o server_socket">>,
     <<"Erro ao colocar o server_socket em listen">>}

\* C6 (as claimed): start_server hands bind the whole size of the address
\* structure; with the path free and accessible and socket creation and
\* listen succeeding it leaves the endpoint listening and returns 0; and it
\* returns -1 exactly when one of the three steps reported an error.
C6_StartBindsAndListens ==
    \A p \in Procs :
        /\ bindLen[p] # <<>> => bindLen[p] = <<SizeofSockaddrUn>>
        /\ startRet[p] # <<>> =>
             /\ (startRet[p] = <<-1>>) = (startLog[p] \in StartErrors)
             /\ (startEnv[p][1].owner = "free" /\ startEnv[p][1].sockOk
                    /\ startEnv[p][1].access /\ startEnv[p][1].listenOk)
                 => startRet[p] = <<0>> /\ server_socket[p] = "listening"

\* C7: when p2 runs start_server while p1 is live with the path bound and its
\* endpoint listening, the call returns -1 without getting past the bind
\* (p2's endpoint is never bound or listening; the failure is the bind's
\* whenever the socket was created), and nothing of p1 changes: not the
\* holder of the path, its endpoint, its position, its connections or the
\* connections waiting for it.
C7_SecondStartFailsAtBind ==
    [][(startPc["p2"] = "entry" /\ startPc'["p2"] = "returned"
            /\ startPc["p1"] = "running" /\ pathOwner = "p1"
            /\ server_socket["p1"] = "listening")
        => /\ startRet'["p2"] = <<-1>>
           /\ server_socket'["p2"] \in {"none", "created"}
           /\ server_socket'["p2"] = "created"
                => startLog'["p2"] = <<"Erro ao vincular o server_socket">>
           /\ pathOwner' = "p1"
           /\ server_socket'["p1"] = "listening"
           /\ startPc'["p1"] = "running"
           /\ UNCHANGED <<pc, client_socket, buffer, bytes_received, log,
                          backlog, conn, closedBy, closes, recvRets, sendRets,
                          wire, consumed>>]_vars

\* p2's start_server has failed at the bind while p1 holds the path and is in
\* the middle of a connection
C7_Witness ==
    /\ startRet["p2"] = <<-1>>
    /\ startLog["p2"] = <<"Erro ao vincular o server_socket">>
    /\ startEnv["p2"][1].owner = "p1"
    /\ pathOwner = "p1" /\ server_socket["p1"] = "listening"
    /\ \E c \in Clients : conn[c] = "open" /\ pc = "send"

\* C8: what the server puts out for a connection is determined by that
\* connection alone, whatever earlier connections left behind: the text it
\* prints is the text of the bytes this recv returned, and the bytes it
\* writes are the leading bytes of ACK Server that this send transferred.
C8_NoCarryOver ==
    \A c \in Clients :
        /\ printed[c] # <<>> =>
             /\ Len(recvRets[c]) = 1 /\ recvRets[c][1] >= 0
             /\ printed[c] = <<Text(MsgPrefix(cmsg[c], recvRets[c][1]))>>
        /\ (sendRets[c] # <<>> /\ sendRets[c][1] >= 0 /\ pc # "killed")
             => wire[c] = Prefix(AckServer, sendRets[c][1])
        /\ (sendRets[c] = <<>> \/ sendRets[c][1] < 0) => wire[c] = <<>>

\* the second connection has been answered in full after its one byte was
\* received into a buffer that still holds bytes of the first connection's
\* 255-byte message
C8_Witness ==
    /\ recvRets[1] = <<BufSize - 1>> /\ recvRets[2] = <<1>>
    /\ client_socket = 2 /\ Exchanged(2) /\ wire[2] = AckServer
    /\ buffer[2] = MsgByte(cmsg[1], 2) /\ buffer[2] # 0

\* C9: a recv that does not fail returns the whole message when it has up to
\* 255 bytes and its first 255 bytes when it has more; the buffer then holds
\* those bytes followed by the terminator; the rest of the message is never
\* read (there is no second recv); and the send follows, answering a 255-byte
\* message and a 1-byte message alike.
C9_TruncatedAt255 ==
    \A c \in Clients :
        (recvRets[c] # <<>> /\ recvRets[c][1] >= 0 /\ cmsg[c].len > 0) =>
            LET n == recvRets[c][1] IN
            /\ n = Min(cmsg[c].len, 255)
            /\ Len(recvRets[c]) = 1
            /\ consumed[c] = n
            /\ client_socket = c =>
                 /\ \A i \in 0..(n - 1) : buffer[i] = MsgByte(cmsg[c], i)
                 /\ buffer[n] = 0
                 /\ bytes_received = n
            /\ (pc = "send" /\ client_socket = c) \/ Len(sendReqs[c]) = 1
            /\ Exchanged(c) => wire[c] = AckServer

\* a message longer than the buffer, cut at 255 bytes and acknowledged, and a
\* message of exactly 255 bytes received whole
C9_Witness ==
    \E c, d \in Clients :
        /\ cmsg[c].len = BufSize + Over /\ recvRets[c] = <<BufSize - 1>>
        /\ cmsg[c].len - consumed[c] = Over + 1
        /\ wire[c] = AckServer /\ conn[c] = "closed"
        /\ cmsg[d].len = BufSize - 1 /\ recvRets[d] = <<BufSize - 1>>

\* C10: on every connection there is, from its accept to its close, one recv
\* and at most one send, the send never without the recv before it, and no
\* recv or send on a connection that is not open.
C10_OneRecvAtMostOneSend ==
    /\ ~ioAfterClose
    /\ \A c \in Clients :
         /\ Len(recvRets[c]) <= 1 /\ Len(sendReqs[c]) <= 1
         /\ Len(sendReqs[c]) <= Len(recvRets[c])
         /\ conn[c] = "none" => recvRets[c] = <<>>
         /\ conn[c] = "closed" => Len(recvRets[c]) = 1
         /\ (conn[c] = "open" /\ pc \in {"send", "close"}) => Len(recvRets[c]) = 1

\* a closed connection that saw a recv and a send, and one that saw a recv
\* and no send
C10_Witness ==
    \E c, d \in Clients :
        /\ conn[c] = "closed" /\ Len(recvRets[c]) = 1 /\ Len(sendReqs[c]) = 1
        /\ conn[d] = "closed" /\ Len(recvRets[d]) = 1 /\ Len(sendReqs[d]) = 0

\* C11: a step in which recv fails prints the receive failure and returns to
\* init_server with the buffer as it was (no terminator written), nothing
\* printed as the client's text and nothing sent; and a connection whose
\* handler ended that way saw no send at all and is closed by init_server.
C11_RecvErrorReturns ==
    /\ [][(pc = "recv" /\ Len(recvRets'[client_socket]) = 1
                /\ recvRets'[client_socket][1] < 0)
            => /\ log' = Append(log, "Erro ao receber dados do cliente")
               /\ pc' = "close"
               /\ handlerEnd'[client_socket] = "recv_error"
               /\ UNCHANGED <<buffer, printed, sendReqs, sendRets, wire,
                              conn, closes>>]_vars
    /\ [](\A c \in Clients :
            ((recvRets[c] # <<>> /\ recvRets[c][1] < 0)
                    \/ handlerEnd[c] = "recv_error")
                => /\ recvRets[c] = <<-1>>
                   /\ handlerEnd[c] = "recv_error"
                   /\ printed[c] = <<>>
                   /\ sendReqs[c] = <<>> /\ sendRets[c] = <<>>
                   /\ wire[c] = <<>>
                   /\ ClosedOrClosing(c))

\* a connection whose recv failed while the client's message was waiting,
\* closed by init_server with nothing printed and nothing sent
C11_Witness ==
    \E c \in Clients :
        /\ recvRets[c] = <<-1>> /\ cmsg[c].len > 0 /\ consumed[c] = 0
        /\ conn[c] = "closed" /\ closedBy[c] = "run" /\ pc = "accept"
        /\ printed[c] = <<>> /\ sendReqs[c] = <<>>

\* C12: recv is asked for at most 255 bytes of the 256-byte buffer, so every
\* count it returns, the place of the terminator, lies in 0..255 (or is the
\* failure, where no terminator is written), and nothing is ever written
\* outside the buffer, whatever the length of the client's message.
C12_TerminatorInsideBuffer ==
    /\ DOMAIN buffer = 0..(BufSize - 1)
    /\ ~oob
    /\ bytes_received \in -1..(BufSize - 1)
    /\ \A c \in Clients :
         \A k \in 1..Len(recvRets[c]) : recvRets[c][k] \in -1..(BufSize - 1)
    /\ pc = "send" => bytes_received \in DOMAIN buffer
                        /\ buffer[bytes_received] = 0

\* a client whose message is longer than the buffer: recv filled 255 bytes
\* and the terminator went into the last byte of the buffer
C12_Witness ==
    /\ pc = "send"
    /\ cmsg[client_socket].len = BufSize + Over
    /\ bytes_received = BufSize - 1
    /\ buffer[BufSize - 1] = 0 /\ buffer[BufSize - 2] # 0

\* C13: whenever the buffer has been printed as the client's text, the recv
\* of that connection had returned a count n that is no failure and the
\* terminator stood right after the n received bytes: the text printed is
\* made of received bytes only (it is a leading part of them, no longer than
\* n), and the terminator is still there while handle_client goes on; a
\* connection whose recv failed has had nothing printed as text.
C13_TextOnlyAfterTerminator ==
    /\ \A c \in Clients :
         /\ printed[c] # <<>> =>
              /\ Len(printed[c]) = 1
              /\ Len(recvRets[c]) = 1 /\ recvRets[c][1] >= 0
              /\ LET n == recvRets[c][1]
                     t == printed[c][1]
                 IN /\ Len(t) <= n
                    /\ t = Prefix(MsgPrefix(cmsg[c], n), Len(t))
                    /\ \A k \in 1..Len(t) : t[k] # 0
         /\ (recvRets[c] # <<>> /\ recvRets[c][1] < 0) => printed[c] = <<>>
    /\ pc = "send" =>
         /\ printed[client_socket] # <<>>
         /\ buffer[bytes_received] = 0
         /\ printed[client_socket][1] = CStr(buffer)

\* a one-byte message printed as a one-byte text out of a buffer whose
\* following byte is not zero, and a connection whose recv failed and printed
\* nothing
C13_Witness ==
    \E c, d \in Clients :
        /\ recvRets[c] = <<1>> /\ Len(printed[c]) = 1 /\ Len(printed[c][1]) = 1
        /\ client_socket = c /\ buffer[1] = 0 /\ buffer[2] # 0
        /\ recvRets[d] = <<-1>> /\ printed[d] = <<>>

C15_SendFailureIsLocal ==
    /\ [][(pc = "send" /\ sendRets' # sendRets /\ pc' # "killed") =>
            LET c == client_socket
                r == sendRets'[c][1]
            IN /\ Len(sendRets'[c]) = 1
               /\ pc' = "close"
               /\ r >= 0 => /\ log' = Append(log, "Resposta enviada")
                            /\ handlerEnd'[c] = "success"
               /\ r < 0 => /\ log' = Append(log, "Erro ao enviar dados para o cliente")
                           /\ handlerEnd'[c] = "send_error"
                           /\ wire'[c] = <<>>
               /\ \A d \in Clients \ {c} :
                    /\ conn'[d] = conn[d] /\ wire'[d] = wire[d]
                    /\ sendRets'[d] = sendRets[d] /\ recvRets'[d] = recvRets[d]
               /\ UNCHANGED <<server_socket, backlog, conn>>]_vars
    /\ [](\A c \in Clients :
            /\ handlerEnd[c] = "success" => sendRets[c][1] >= 0
            /\ handlerEnd[c] = "send_error" =>
                 /\ sendRets[c][1] < 0
                 /\ ClosedOrClosing(c)
            /\ \A d \in Clients :
                 (handlerEnd[d] = "send_error" /\ d < c /\ Exchanged(c))
                     => wire[c] = AckServer /\ ClosedOrClosing(c))

\* the first connection's send failed and init_server closed it; the second
\* client was then accepted and acknowledged in full
C15_Witness ==
    /\ handlerEnd[1] = "send_error" /\ sendRets[1] = <<-1>>
    /\ closedBy[1] = "run" /\ wire[1] = <<>>
    /\ client_socket = 2 /\ Exchanged(2) /\ wire[2] = AckServer
    /\ handlerEnd[2] = "success"

\* C16 (as claimed): once init_server has begun, the server is always at one
\* of the steps of its loop (accept, recv, send, close): no outcome of any of
\* them ends the process.
C16_NoTerminalState ==
    pc \in {"accept", "recv", "send", "close"}

\* C18 (as claimed): whenever Resposta enviada has been printed for a
\* connection, all ten bytes of ACK Server have been written to it.
C18_SuccessMeansAllSent ==
    \A c \in Clients :
        handlerEnd[c] = "success" => wire[c] = AckServer

\* C19: every accepted connection is closed exactly once, by init_server and
\* after handle_client has returned: no step of handle_client closes it (it
\* stays open, with no close, up to the close in init_server), no connection
\* is closed twice, and when init_server is at its accept every connection it
\* accepted before has had its one close.
C19_ClosedExactlyOnce ==
    /\ [][(pc \in {"recv", "send"} /\ pc' # "killed")
            => UNCHANGED <<conn, closes, closedBy>>]_vars
    /\ [](\A c \in Clients :
            /\ closes[c] <= 1
            /\ (closes[c] = 1) = (closedBy[c] = "run")
            /\ closes[c] = 1 => conn[c] = "closed" /\ handlerEnd[c] # "none"
            /\ conn[c] = "open" => closes[c] = 0 /\ client_socket = c
            /\ (pc = "accept" /\ conn[c] # "none")
                 => conn[c] = "closed" /\ closes[c] = 1)

\* back at the accept with two connections closed once each, one whose
\* handler returned after its send and one whose handler returned at the
\* failed recv
C19_Witness ==
    /\ pc = "accept"
    /\ closes = [c \in Clients |-> 1]
    /\ \E c, d \in Clients :
         handlerEnd[c] = "success" /\ handlerEnd[d] = "recv_error"

\* the accepted client c is connected and silent: it has sent nothing that
\* the server has not read, and has neither shut down nor closed
Silent(c) == cst[c] = "open" /\ Avail(c) = 0

\* C17: while the accepted client stays connected and silent, and recv is
\* not failed by the operating system, the server stays in its recv: no step
\* moves it on, nothing is printed, no other client is accepted or answered
\* and nothing is closed, however many clients wait to be accepted; recv has
\* then no result at all.
C17_SilentClientBlocksServer ==
    /\ [][(pc = "recv" /\ Silent(client_socket) /\ faults' = faults
                /\ cst'[client_socket] = "open"
                /\ cmsg'[client_socket] = cmsg[client_socket])
            => /\ pc' = "recv"
               /\ UNCHANGED <<client_socket, log, conn, closes, recvRets,
                              sendReqs, sendRets, wire, printed, buffer>>
               /\ \A d \in Clients : d # client_socket => conn'[d] # "open"]_vars
    /\ []((pc = "recv" /\ Silent(client_socket) /\ faults = MaxFaults)
            => ~ENABLED handle_client_recv)

\* the first client is accepted and silent, the server is in its recv and
\* cannot move, and the second client has connected and sent its message
C17_Witness ==
    /\ pc = "recv" /\ client_socket = 1 /\ Silent(1) /\ cmsg[1] = NoMsg
    /\ faults = MaxFaults
    /\ backlog = <<2>> /\ cmsg[2].len > 0 /\ conn[2] = "none"
    /\ ~ENABLED handle_client_recv

====
